---- MODULE Spec2Model ----
(***************************************************************************)
(* smart-file-search: the indexing pipeline (search_agent/indexer.py,      *)
(* search_agent/network_indexer.py, search_agent/extractor.py,             *)
(* search_agent/config.py), the search engines (search_agent/search.py,    *)
(* search_agent/simple_search.py), the chunker and the file preview as a   *)
(* state machine.                                                          *)
(*                                                                         *)
(* Strings are sequences of one-character strings, so that prefix tests    *)
(* (str.startswith, SQL LIKE 'root%'), suffixes (Path.suffix) and trimming *)
(* (str.strip) are computed the way the code computes them.                *)
(*                                                                         *)
(* A deployment runs one of the two indexer stacks on its database file:   *)
(* FileIndexer (tables files/docs) or NetworkFolderIndexer (tables         *)
(* files/search_index); the variable impl says which. The database file is *)
(* persistent and the constructors only run CREATE ... IF NOT EXISTS on    *)
(* it, so the rows it holds when the process starts are part of the        *)
(* initial state.                                                          *)
(***************************************************************************)
EXTENDS Integers, Sequences, FiniteSets, TLC

VARIABLES
    impl,       \* "file": FileIndexer, "network": NetworkFolderIndexer
    fs,         \* the directory tree: path -> NoFile or [text, mtime]
    allowed,    \* config.allowed_network_paths (get_config()['allowed_roots'])
    files,      \* rows of table files
    docs,       \* rows of table docs (FileIndexer) / search_index (network)
    procs,      \* per caller: the running index call and its last result
    fsOps,      \* number of changes made to the tree so far
    calls,      \* number of index calls started so far
    task,       \* per caller: the asyncio task running index_folder
    srch,       \* the search engine's configuration and its last search
    txn,        \* the writer's open transaction and what a reader last saw
    chunker,    \* the running call of ContentExtractor._chunk_text
    view        \* the last call of SearchEngine.get_file_preview

vars == <<impl, fs, allowed, files, docs, procs, fsOps, calls, task, srch, txn,
          chunker, view>>

----------------------------------------------------------------------------
(* Bounds of the model *)

MaxFsOps == 1
MaxCalls == 2

----------------------------------------------------------------------------
(* Program constants, scaled to the size of the model's texts *)

\* config.max_file_size_mb * 1024 * 1024 bytes, here in characters
MaxFileSize == 3
\* ContentExtractor(chunk_size = 1000, chunk_overlap = 100)
ChunkSize == 2
ChunkOverlap == 0
\* the word-boundary scan looks back at most 100 characters
BoundaryLookback == 100
\* NetworkFolderIndexer skips content whose stripped length is below 10
MinNetworkContent == 1

----------------------------------------------------------------------------
(* Strings *)

Min(a, b) == IF a < b THEN a ELSE b
Max(a, b) == IF a > b THEN a ELSE b

\* str.startswith, and the SQL pattern  path LIKE prefix || '%'
StartsWith(s, prefix) ==
    /\ Len(prefix) <= Len(s)
    /\ SubSeq(s, 1, Len(prefix)) = prefix

Whitespace == {" ", "\n", "\t"}

RECURSIVE LStrip(_)
LStrip(s) ==
    IF s # <<>> /\ Head(s) \in Whitespace THEN LStrip(Tail(s)) ELSE s

RECURSIVE RStrip(_)
RStrip(s) ==
    IF s # <<>> /\ s[Len(s)] \in Whitespace
    THEN RStrip(SubSeq(s, 1, Len(s) - 1))
    ELSE s

\* str.strip()
Strip(s) == RStrip(LStrip(s))

\* str.lower() on the letters the model's file names use
Lower(s) ==
    [i \in 1..Len(s) |->
        CASE s[i] = "L" -> "l"
          [] s[i] = "O" -> "o"
          [] s[i] = "G" -> "g"
          [] s[i] = "T" -> "t"
          [] s[i] = "X" -> "x"
          [] OTHER -> s[i]]

\* os.path.basename: the part after the last "/"
Basename(path) ==
    LET slashes == {i \in 1..Len(path) : path[i] = "/"}
        last == IF slashes = {} THEN 0
                ELSE CHOOSE i \in slashes : \A j \in slashes : j <= i
    IN  SubSeq(path, last + 1, Len(path))

\* pathlib.Path(name).suffix: from the last "." of the name, when that dot
\* is neither its first nor its last character
Suffix(name) ==
    LET dots == {i \in 2..Len(name) : name[i] = "."}
        last == IF dots = {} THEN 0
                ELSE CHOOSE i \in dots : \A j \in dots : j <= i
    IN  IF last = 0 \/ last = Len(name) THEN <<>>
        ELSE SubSeq(name, last, Len(name))

\* os.path.abspath / os.path.normpath on an absolute path: drops trailing
\* separators (the model's paths hold no "." or ".." components)
RECURSIVE NormPath(_)
NormPath(path) ==
    IF Len(path) > 1 /\ path[Len(path)] = "/"
    THEN NormPath(SubSeq(path, 1, Len(path) - 1))
    ELSE path

\* os.path.join(root, name)
JoinPath(root, name) ==
    IF root # <<>> /\ root[Len(root)] = "/" THEN root \o name
    ELSE root \o <<"/">> \o name

----------------------------------------------------------------------------
(* The directory tree the model crawls *)

RootA  == <<"/", "a">>
RootAB == <<"/", "a", "b">>
RootZ  == <<"/", "z">>

\* the roots a caller may pass; RootZ does not exist on disk
Roots == {RootA, <<"/", "a", "/">>, RootAB, RootZ}
ExistingDirs == {RootA, RootAB}

FA1 == <<"/", "a", "/", "f", ".", "t", "x", "t">>
FX  == <<"/", "a", "/", "x", ".", "b", "i", "n">>
FB1 == <<"/", "a", "b", "/", "g", ".", "t", "x", "t">>

\* directory order of the walk
AllFiles == <<FA1, <<"/", "a", "/", "e", ".", "L", "O", "G">>, FX,
              <<"/", "a", "/", ".", "h", ".", "t", "x", "t">>, FB1>>
FileSet == {AllFiles[i] : i \in 1..Len(AllFiles)}
\* the files the environment creates and rewrites, and those it deletes
WrittenFiles == {FA1}
DeletedFiles == {FA1, FB1}

TA     == <<"a">>
Texts  == {<<>>, TA, <<"b", " ", "c">>, <<"a", "a", "a", "a">>}

NoFile == [text |-> <<"-">>, mtime |-> 0]

\* os.path.exists
Exists(tree, path) ==
    \/ NormPath(path) \in ExistingDirs
    \/ path \in FileSet /\ tree[path] # NoFile

\* os.stat(path).st_size / os.path.getsize(path)
StSize(tree, path) == Len(tree[path].text)
StMtime(tree, path) == tree[path].mtime

\* the file lies in the directory tree below root
IsUnder(path, root) == StartsWith(path, NormPath(root) \o <<"/">>)

\* the path of a file relative to the walked root
RelPath(path, root) == SubSeq(path, Len(NormPath(root)) + 2, Len(path))

\* the first characters of the components of a relative path
ComponentStarts(rel) == {1} \cup {i \in 2..Len(rel) : rel[i - 1] = "/"}
LastComponentStart(rel) ==
    CHOOSE i \in ComponentStarts(rel) : \A j \in ComponentStarts(rel) : j <= i

----------------------------------------------------------------------------
(* search_agent/config.py *)

ExtTxt == <<".", "t", "x", "t">>
ExtMd  == <<".", "m", "d">>
ExtPy  == <<".", "p", "y">>

\* SearchConfig.supported_extensions (the entries the model's names can hit)
supported_extensions == {ExtTxt, ExtMd, ExtPy, <<".", "l", "o", "g">>, <<".", "i", "n", "i">>}

\* SearchConfig.add_network_path
add_network_path(list, path) ==
    IF \E i \in 1..Len(list) : list[i] = NormPath(path) THEN list
    ELSE Append(list, NormPath(path))

----------------------------------------------------------------------------
(* search_agent/extractor.py *)

\* text[start:end] of Python, 0-based and clipped
Slice(text, start, end) == SubSeq(text, start + 1, Min(end, Len(text)))

\* a cut two characters past the chunk size
LongEnd(text, start, size) == start + size + 2

\* the end of the chunk that starts at start
ChunkEnd(text, start, size) ==
    LET end == start + size
        lo  == Max(start + (size \div 2), end - BoundaryLookback)
        hits == {i \in (lo + 1)..end : i < Len(text) /\ text[i + 1] \in {" ", "\n", "\t", ".", "!", "?"}}
    IN  IF end < Len(text) /\ hits # {}
        THEN (CHOOSE i \in hits : \A j \in hits : j <= i) + 1
        ELSE end

RECURSIVE ChunkLoop(_, _, _, _, _)
ChunkLoop(text, size, overlap, start, chunks) ==
    LET end   == ChunkEnd(text, start, size)
        chunk == Strip(Slice(text, start, end))
        out   == IF chunk # <<>> THEN Append(chunks, chunk) ELSE chunks
        next  == end - overlap
    IN  IF next >= Len(text) THEN out
        ELSE ChunkLoop(text, size, overlap, next, out)

\* ContentExtractor._chunk_text
chunk_text(text, size, overlap) ==
    IF Len(text) <= size THEN <<text>>
    ELSE ChunkLoop(text, size, overlap, 0, <<>>)

\* ContentExtractor.extract_content: the chunks of a file, << >> when the
\* extension has no extractor or the file has no content
extract_content(path, text) ==
    LET ext == Lower(Suffix(Basename(path)))
    IN  IF ext \notin {ExtTxt, ExtMd, ExtPy} THEN <<>>
        ELSE IF text = <<>> THEN <<>>
        ELSE chunk_text(text, ChunkSize, ChunkOverlap)

\* ContentExtractor has no method extract_text (only _extract_text), so
\* NetworkFolderIndexer's call self.extractor.extract_text raises AttributeError
ExtractorHasExtractText == FALSE

----------------------------------------------------------------------------
(* The store: tables files and docs / search_index *)

NoTag == <<>>
NoPointer == <<"-", 0>>

\* f"chunk_{i}"
Pointer(i) == <<"chunk_", i>>

FileRow(id, path, size, mtime, ext, tag) ==
    [id |-> id, path |-> path, size |-> size, mtime |-> mtime, ext |-> ext,
     network_path |-> tag]

DocRow(rowid, file_id, pointer, content) ==
    [rowid |-> rowid, file_id |-> file_id, pointer |-> pointer,
     content |-> content]

SetMax(S) == IF S = {} THEN 0 ELSE CHOOSE x \in S : \A y \in S : y <= x

\* the rowid SQLite gives the next inserted row: one above the largest
NextRowid(rows) == SetMax({r.id : r \in rows}) + 1
NextDocRowid(drows) == SetMax({d.rowid : d \in drows}) + 1

\* INSERT OR REPLACE INTO files: path is UNIQUE, so the row holding the path
\* is deleted and a row with a fresh id is inserted
InsertOrReplaceFile(rows, path, size, mtime, ext, tag) ==
    LET id == NextRowid(rows)
    IN  [id   |-> id,
         rows |-> {r \in rows : r.path # path}
                    \cup {FileRow(id, path, size, mtime, ext, tag)}]

\* SELECT id FROM files WHERE path = ?
IdsOfPath(rows, path) == {r.id : r \in {x \in rows : x.path = path}}

\* DELETE FROM docs WHERE file_id = ?
DeleteDocs(drows, file_id) == {d \in drows : d.file_id # file_id}

\* the loop INSERT INTO docs (file_id, pointer, content) over enumerate(chunks)
InsertChunks(drows, file_id, chunks) ==
    drows \cup {DocRow(NextDocRowid(drows) + i - 1, file_id, Pointer(i - 1),
                       chunks[i]) : i \in 1..Len(chunks)}

\* the chunk rows a search or preview joins to the path
ChunksOfPath(rows, drows, path) ==
    {d \in drows : d.file_id \in IdsOfPath(rows, path)}

----------------------------------------------------------------------------
(* search_agent/indexer.py: FileIndexer *)

\* a connection object on which conn.lastrowid could be read
ConnectionWithLastrowid == TRUE

\* sqlite3.Connection has no attribute lastrowid (only Cursor has), so the
\* expression conn.lastrowid in _index_file raises AttributeError
ConnectionHasLastrowid == FALSE

\* FileIndexer._is_allowed_root
is_allowed_root(list, root_path) ==
    \/ list = <<>>
    \/ \E i \in 1..Len(list) : StartsWith(NormPath(root_path), NormPath(list[i]))

\* FileIndexer._get_existing_files: path -> (size, mtime), as a set of entries
get_existing_files(rows, root_path) ==
    {[path |-> r.path, size |-> r.size, mtime |-> r.mtime] :
        r \in {x \in rows : StartsWith(x.path, root_path)}}

ExistingPaths(existing) == {e.path : e \in existing}

\* a directory or file name of the relative path begins with "."
HasHiddenComponent(rel) == \E i \in ComponentStarts(rel) : rel[i] = "."

\* the files os.walk(root_path) reaches in FileIndexer._scan_files
Encountered(tree, root_path) ==
    {f \in FileSet :
        /\ tree[f] # NoFile
        /\ IsUnder(f, root_path)
        /\ ~HasHiddenComponent(RelPath(f, root_path))}

\* the checks of _scan_files on one file: extension, then size
Accepted(tree, f) ==
    /\ supported_extensions # {} => Lower(Suffix(Basename(f))) \in supported_extensions
    /\ StSize(tree, f) <= MaxFileSize

\* a sequence in walk order of the members of S
RECURSIVE InWalkOrder(_, _)
InWalkOrder(S, i) ==
    IF i > Len(AllFiles) THEN <<>>
    ELSE IF AllFiles[i] \in S THEN <<AllFiles[i]>> \o InWalkOrder(S, i + 1)
    ELSE InWalkOrder(S, i + 1)

\* FileIndexer._scan_files
scan_files(tree, root_path) ==
    LET keep == {f \in Encountered(tree, root_path) : Accepted(tree, f)}
        walk == InWalkOrder(keep, 1)
    IN  [i \in 1..Len(walk) |-> JoinPath(root_path, RelPath(walk[i], root_path))]

\* FileIndexer._should_index_file
should_index_file(tree, file_path, existing, full_reindex) ==
    IF full_reindex THEN TRUE
    ELSE IF file_path \notin ExistingPaths(existing) THEN TRUE
    ELSE IF file_path \notin FileSet \/ tree[file_path] = NoFile THEN TRUE
    ELSE LET e == CHOOSE x \in existing : x.path = file_path
         IN  StSize(tree, file_path) # e.size \/ StMtime(tree, file_path) # e.mtime

\* FileIndexer._index_file: raised says whether it ends by raising; rows and
\* drows are the tables after it (a raise inside the connection's with-block
\* rolls the transaction back)
index_file(tree, rows, drows, file_path) ==
    IF file_path \notin FileSet \/ tree[file_path] = NoFile
    THEN [raised |-> TRUE, rows |-> rows, drows |-> drows]
    ELSE LET content_chunks == extract_content(file_path, tree[file_path].text)
             up == InsertOrReplaceFile(rows, file_path, StSize(tree, file_path),
                       StMtime(tree, file_path),
                       Lower(Suffix(Basename(file_path))), NoTag)
         IN  IF content_chunks = <<>>
             THEN [raised |-> FALSE, rows |-> rows, drows |-> drows]
             ELSE IF ~ConnectionHasLastrowid
             THEN [raised |-> TRUE, rows |-> rows, drows |-> drows]
             ELSE [raised |-> FALSE, rows |-> up.rows,
                   drows |-> InsertChunks(DeleteDocs(drows, up.id), up.id,
                                          content_chunks)]

\* FileIndexer._remove_file_from_index
remove_file_from_index(rows, drows, file_path) ==
    LET ids == IdsOfPath(rows, file_path)
    IN  [rows  |-> {r \in rows : r.id \notin ids},
         drows |-> {d \in drows : d.file_id \notin ids}]

\* the loop of index_folder over removed_files
RECURSIVE RemoveAll(_, _, _)
RemoveAll(rows, drows, paths) ==
    IF paths = {} THEN [rows |-> rows, drows |-> drows]
    ELSE LET p == CHOOSE x \in paths : TRUE
             r == remove_file_from_index(rows, drows, p)
         IN  RemoveAll(r.rows, r.drows, paths \ {p})

----------------------------------------------------------------------------
(* State of the callers *)

Procs == {"p1", "p2"}

ZeroStats == [indexed |-> 0, skipped |-> 0, removed |-> 0, errors |-> 0,
              updated |-> 0]

NoFileStep == [path |-> <<>>, verdict |-> "none", unchanged |-> FALSE,
               result |-> "-", chunksOk |-> TRUE]

\* what the last step of a call did with one file of the walk
\*   verdict: "reindex", "skip_unchanged", "skip_ext", "skip_size", "stat_error"
\*   unchanged: the path is in the snapshot with the size and mtime stat gives
\*   result (of a reindex): "persisted", "empty", "failed"
\*   chunksOk: the chunk rows of the path are the chunks of its present text
FileStep(path, verdict, unchanged, result, chunksOk) ==
    [path |-> path, verdict |-> verdict, unchanged |-> unchanged,
     result |-> result, chunksOk |-> chunksOk]

\* A caller's record describes its running call, or its last one when idle.
\* root .. stats are the locals of index_folder / index_network_folder; the
\* remaining fields record what the call has done so far.
IdleProc ==
    [pc |-> "idle", outcome |-> "none", root |-> <<>>, full |-> FALSE,
     existing |-> {}, todo |-> <<>>, current_files |-> {}, stats |-> ZeroStats,
     fs0 |-> 0, allowed0 |-> <<>>, snapshot |-> {}, repeat |-> FALSE,
     dirty |-> FALSE, foreign |-> FALSE, allowChanged |-> FALSE,
     encountered |-> 0, candidates |-> 0, reconciled |-> FALSE,
     quiet |-> FALSE, authorized |-> FALSE, filesAfter |-> {}, docsAfter |-> {},
     leftover |-> {}, unindexed |-> {}, step |-> NoFileStep]

\* The asyncio task of a caller's index_folder coroutine:
\*   priority: the priority argument ("normal" or "low")
\*   cancel: cancellation of the task has been requested (Task.cancel)
\*   asleep: the coroutine is suspended in asyncio.sleep(0.01) (line 92)
\*   removedAfterCancel: rows were removed after the request
NoTask == [priority |-> "normal", cancel |-> FALSE, asleep |-> FALSE,
           removedAfterCancel |-> FALSE]

\* The search engine and its last search:
\*   semantic_model: the engine holds a sentence-embedding model
\*   rank: the bm25 rank FTS5 gives a row for the query, by the row's content
\*   sim: the similarity the embedding model gives a snippet for the query
\*   engine: "SearchEngine" or "SimpleFileSearch", "none" before any search
\*   query .. roots: the arguments of the call
\*   fts_query: the expression handed to MATCH
\*   outcome: "ok" when the call returned, "raised" when it raised
\*   fetched: the rows the SELECT returned; batch: the same after reranking
\*   items, pagination: the returned dictionary
NoSearch ==
    [semantic_model |-> FALSE, rank |-> <<>>, sim |-> <<>>, engine |-> "none",
     query |-> <<>>, k |-> 0, offset |-> 0, file_extensions |-> <<>>,
     years |-> <<>>, roots |-> <<>>, fts_query |-> <<>>, outcome |-> "none",
     fetched |-> <<>>, batch |-> <<>>, items |-> <<>>,
     pagination |-> [offset |-> 0, returned |-> 0, total_estimate |-> 0]]

\* the rows of path and the chunks joined to them, as one version of the file
VersionOf(rows, drows, path) ==
    [path |-> path,
     chunks |-> {<<d.pointer, d.content>> : d \in ChunksOfPath(rows, drows, path)}]

\* The database connections:
\*   open, owner, path: a caller's _index_file is inside its with-block
\*   rows, drows: the tables as the open transaction sees them
\*   seen: the tables as the last query saw them; during: it ran while a
\*     transaction was open
\*   versions: the versions of the files that were ever committed
\*   interrupted: a transaction ended by rolling back
\*   intact: every rollback left the committed version of its file in place
NoTxn(rows, drows) ==
    [open |-> FALSE, owner |-> "-", path |-> <<>>, rows |-> {}, drows |-> {},
     seen |-> [rows |-> {}, drows |-> {}], during |-> FALSE,
     versions |-> {VersionOf(rows, drows, r.path) : r \in rows},
     interrupted |-> FALSE, intact |-> TRUE]

\* A call of ContentExtractor._chunk_text:
\*   text, chunk_size, chunk_overlap: the argument and the extractor's fields
\*   pc: "idle", "loop" (at the head of the while loop), "done" (returned)
\*   start: the local start; chunks: the local chunks, or the returned list
\*   cuts: the slices text[start:end] the loop has cut so far
NoChunker ==
    [text |-> <<>>, chunk_size |-> 0, chunk_overlap |-> 0, pc |-> "idle",
     start |-> 0, chunks |-> <<>>, cuts |-> <<>>]

\* A call of SearchEngine.get_file_preview:
\*   file_path, pointer, before, after: the arguments
\*   outcome: "none", "ok" (returned) or "ValueError" (raised)
\*   joined: the chunk rows of the path when the call was made, as
\*     (rowid, pointer) pairs
\*   fetched: the pointer of the row the query fetched; content: its content
\*   start: the offset the window was cut at
\*   preview, truncated: the returned dictionary
NoView ==
    [file_path |-> <<>>, pointer |-> <<"-", 0>>, before |-> 0, after |-> 0,
     outcome |-> "none", joined |-> {}, fetched |-> <<"-", 0>>, content |-> <<>>,
     start |-> 0, preview |-> <<>>, truncated |-> FALSE]

\* the rows of files whose path does not lie in the directory tree below root
ForeignRows(rows, root) == {r \in rows : ~IsUnder(r.path, root)}

\* the snapshot a change decision is judged against: every row's size and mtime
SnapshotOf(rows) == {[path |-> r.path, size |-> r.size, mtime |-> r.mtime] : r \in rows}

Unchanged(tree, snapshot, path) ==
    /\ path \in FileSet /\ tree[path] # NoFile
    /\ [path |-> path, size |-> StSize(tree, path), mtime |-> StMtime(tree, path)]
           \in snapshot

\* the chunk contents stored for a path, in rowid order
RECURSIVE InRowidOrder(_)
InRowidOrder(drows) ==
    IF drows = {} THEN <<>>
    ELSE LET d == CHOOSE x \in drows : \A y \in drows : x.rowid <= y.rowid
         IN  <<d>> \o InRowidOrder(drows \ {d})

\* the chunk rows of path are the chunker's output for text, with pointers
\* chunk_0 .. chunk_{n-1} in order
ChunksAre(rows, drows, path, chunks) ==
    LET stored == InRowidOrder(ChunksOfPath(rows, drows, path))
    IN  /\ Len(stored) = Len(chunks)
        /\ \A i \in 1..Len(chunks) :
              stored[i].pointer = Pointer(i - 1) /\ stored[i].content = chunks[i]

\* the paths below root that are missing on disk and still have a row or chunk
Leftover(tree, rows, drows, root) ==
    {f \in FileSet :
        /\ IsUnder(f, root) /\ tree[f] = NoFile
        /\ (IdsOfPath(rows, f) # {} \/ ChunksOfPath(rows, drows, f) # {})}

\* the accepted files below root (not pruned, extension in the allow-set, size
\* within the maximum) that lack a File row or a chunk row
Unindexed(tree, rows, drows, root) ==
    {f \in Encountered(tree, root) :
        /\ Accepted(tree, f)
        /\ (IdsOfPath(rows, f) = {} \/ ChunksOfPath(rows, drows, f) = {})}

\* the record of caller p after a step that leaves the tables as rows2, drows2
\* and the allow-list as list2
Track(rec, rows2, drows2, list2) ==
    [rec EXCEPT
        !.dirty = @ \/ rows2 # files \/ drows2 # docs,
        !.allowChanged = @ \/ list2 # allowed,
        !.foreign = @ \/ ForeignRows(rows2, rec.root) # ForeignRows(files, rec.root)]

----------------------------------------------------------------------------
(* Initial state *)

InitTree ==
    [f \in FileSet |-> [text |-> TA, mtime |-> 1]]

\* the tables an index of the paths in S of the initial tree holds
IndexedRows(S, tagged) ==
    {FileRow(IF f = FB1 /\ FA1 \in S THEN 2 ELSE 1, f, StSize(InitTree, f),
             StMtime(InitTree, f), Lower(Suffix(Basename(f))),
             IF ~tagged THEN NoTag ELSE IF IsUnder(f, RootA) THEN RootA ELSE RootAB)
        : f \in S}

IndexedDocs(S, tagged) ==
    {DocRow(r.id, r.id, IF tagged THEN NoPointer ELSE Pointer(0), TA)
        : r \in IndexedRows(S, tagged)}

Init ==
    /\ impl \in {"file", "network"}
    /\ fs = InitTree
    /\ allowed \in {<<>>, <<RootA>>}
    /\ \E S \in SUBSET DeletedFiles :
          /\ files = IndexedRows(S, impl = "network")
          /\ docs = IndexedDocs(S, impl = "network")
    /\ procs = [p \in Procs |-> IdleProc]
    /\ fsOps = 0
    /\ calls = 0
    /\ task = [p \in Procs |-> NoTask]
    /\ srch = NoSearch
    /\ txn = NoTxn(files, docs)
    /\ chunker = NoChunker
    /\ view = NoView

----------------------------------------------------------------------------
(* The environment: files are written and deleted while the indexer runs *)

\* the times a write can leave on a file: the clock's, or the one the file
\* had (a copy or restore that preserves times)
WriteMtimes(f) ==
    {fsOps + 2, IF fs[f] = NoFile THEN 1 ELSE fs[f].mtime}

FsWrite(f, st) ==
    /\ fsOps < MaxFsOps
    /\ st # fs[f]
    /\ fs' = [fs EXCEPT ![f] = st]
    /\ fsOps' = fsOps + 1
    /\ UNCHANGED <<impl, allowed, files, docs, procs, calls>>

FsDelete(f) ==
    /\ fsOps < MaxFsOps
    /\ fs[f] # NoFile
    /\ fs' = [fs EXCEPT ![f] = NoFile]
    /\ fsOps' = fsOps + 1
    /\ UNCHANGED <<impl, allowed, files, docs, procs, calls>>

----------------------------------------------------------------------------
(* FileIndexer.index_folder, one step per file of the walk *)

\* the call repeats the caller's last one: same root, both incremental, the
\* last one completed, and neither the tree nor the tables changed since the
\* last one began resp. ended
Repeats(prev, root, full) ==
    /\ prev.outcome = "ok" /\ prev.quiet
    /\ prev.root = root /\ ~prev.full /\ ~full
    /\ prev.fs0 = fsOps
    /\ prev.filesAfter = files /\ prev.docsAfter = docs

\* the record of a call that starts now
StartedCall(prev, root, full) ==
    [IdleProc EXCEPT
        !.root = root, !.full = full, !.fs0 = fsOps, !.allowed0 = allowed,
        !.snapshot = SnapshotOf(files), !.repeat = Repeats(prev, root, full)]

\* lines 61-80: validation, snapshot and scan
IndexFolderBegin(p, root_path, full_reindex) ==
    /\ impl = "file"
    /\ procs[p].pc = "idle"
    /\ calls < MaxCalls
    /\ calls' = calls + 1
    /\ LET call == StartedCall(procs[p], root_path, full_reindex)
           scanned == scan_files(fs, root_path)
       IN  procs' = [procs EXCEPT ![p] =
             IF ~is_allowed_root(allowed, root_path)
             THEN [call EXCEPT !.outcome = "NotAuthorized"]
             ELSE IF ~Exists(fs, root_path)
             THEN [call EXCEPT !.outcome = "RootMissing", !.authorized = TRUE]
             ELSE [call EXCEPT
                     !.pc = "walk", !.outcome = "running", !.authorized = TRUE,
                     !.existing = get_existing_files(files, root_path),
                     !.todo = scanned,
                     !.encountered = Cardinality(Encountered(fs, root_path)),
                     !.candidates = Len(scanned)]]
    /\ UNCHANGED <<impl, fs, allowed, files, docs, fsOps>>

\* lines 80-96: the body of the loop for the next file of the scan
IndexFolderFile(p) ==
    /\ impl = "file"
    /\ procs[p].pc = "walk"
    /\ procs[p].todo # <<>>
    /\ LET rec == procs[p]
           file_path == Head(rec.todo)
           same == Unchanged(fs, rec.snapshot, file_path)
           reindex == should_index_file(fs, file_path, rec.existing, rec.full)
           r == index_file(fs, files, docs, file_path)
           rows2 == IF reindex /\ ~r.raised THEN r.rows ELSE files
           drows2 == IF reindex /\ ~r.raised THEN r.drows ELSE docs
           chunks == IF file_path \in FileSet /\ fs[file_path] # NoFile
                     THEN extract_content(file_path, fs[file_path].text)
                     ELSE <<>>
           step == IF ~reindex
                   THEN FileStep(file_path, "skip_unchanged", same, "-", TRUE)
                   ELSE IF r.raised
                   THEN FileStep(file_path, "reindex", same, "failed", TRUE)
                   ELSE FileStep(file_path, "reindex", same,
                            IF IdsOfPath(rows2, file_path) # IdsOfPath(files, file_path)
                            THEN "persisted" ELSE "empty",
                            ChunksAre(rows2, drows2, file_path, chunks))
           stats2 == IF ~reindex THEN [rec.stats EXCEPT !.skipped = @ + 1]
                     ELSE IF r.raised THEN [rec.stats EXCEPT !.errors = @ + 1]
                     ELSE [rec.stats EXCEPT !.indexed = @ + 1]
       IN  /\ files' = rows2
           /\ docs' = drows2
           /\ procs' = [procs EXCEPT ![p] =
                 [Track(rec, rows2, drows2, allowed) EXCEPT
                     !.todo = Tail(rec.todo),
                     !.current_files = @ \cup {file_path},
                     !.stats = stats2,
                     !.step = step]]
    /\ UNCHANGED <<impl, fs, allowed, fsOps, calls>>

\* lines 98-108: reconciliation of deletions and return of the counters
IndexFolderFinish(p) ==
    /\ impl = "file"
    /\ procs[p].pc = "walk"
    /\ procs[p].todo = <<>>
    /\ LET rec == procs[p]
           removed_files == ExistingPaths(rec.existing) \ rec.current_files
           r == RemoveAll(files, docs, removed_files)
       IN  /\ files' = r.rows
           /\ docs' = r.drows
           /\ procs' = [procs EXCEPT ![p] =
                 [Track(rec, r.rows, r.drows, allowed) EXCEPT
                     !.pc = "idle", !.outcome = "ok",
                     !.existing = {}, !.current_files = {}, !.snapshot = {},
                     !.stats = [rec.stats EXCEPT
                                   !.removed = @ + Cardinality(removed_files)],
                     !.reconciled = TRUE,
                     !.quiet = (fsOps = rec.fs0),
                     !.filesAfter = r.rows, !.docsAfter = r.drows,
                     !.leftover = IF fsOps = rec.fs0
                                  THEN Leftover(fs, r.rows, r.drows, rec.root)
                                  ELSE {},
                     !.unindexed = IF fsOps = rec.fs0
                                   THEN Unindexed(fs, r.rows, r.drows, rec.root)
                                   ELSE {},
                     !.step = NoFileStep]]
    /\ UNCHANGED <<impl, fs, allowed, fsOps, calls>>

----------------------------------------------------------------------------
(* search_agent/network_indexer.py: NetworkFolderIndexer *)

\* NetworkFolderIndexer._get_existing_files
get_existing_network_files(rows, network_path) ==
    {[path |-> r.path, size |-> r.size, mtime |-> r.mtime] :
        r \in {x \in rows : x.network_path = network_path
                             \/ StartsWith(x.path, network_path)}}

\* a directory of the relative path begins with "." or "$"
HasPrunedDir(rel) ==
    \E i \in ComponentStarts(rel) \ {LastComponentStart(rel)} : rel[i] \in {".", "$"}

\* the files os.walk(network_path) lists, in walk order
network_listing(tree, network_path) ==
    LET seen == {f \in FileSet :
                    /\ tree[f] # NoFile
                    /\ IsUnder(f, network_path)
                    /\ ~HasPrunedDir(RelPath(f, network_path))}
        walk == InWalkOrder(seen, 1)
    IN  [i \in 1..Len(walk) |-> JoinPath(network_path, RelPath(walk[i], network_path))]

\* search_index is created with content='' (contentless): it keeps no column
\* values, search_index.file_id reads NULL, joins to no row of files and
\* satisfies no condition  file_id = ?
SearchIndexKeepsColumns == FALSE

\* DELETE FROM search_index WHERE file_id = ?  for the ids given
DeletePostings(drows, ids) ==
    IF SearchIndexKeepsColumns THEN {d \in drows : d.file_id \notin ids}
    ELSE drows

\* NetworkFolderIndexer._store_file: one posting per file
store_file(rows, drows, file_path, ext, size, mtime, content, network_path) ==
    LET up == InsertOrReplaceFile(rows, file_path, size, mtime, ext, network_path)
    IN  [rows  |-> up.rows,
         drows |-> DeletePostings(drows, {up.id})
                     \cup {DocRow(NextDocRowid(drows), up.id, NoPointer, content)}]

\* NetworkFolderIndexer._cleanup_missing_files
cleanup_missing_files(tree, rows, drows, network_path) ==
    LET gone == {r \in rows :
                    /\ r.network_path = network_path \/ StartsWith(r.path, network_path)
                    /\ ~Exists(tree, r.path)}
    IN  [rows    |-> rows \ gone,
         drows   |-> DeletePostings(drows, {r.id : r \in gone}),
         removed |-> Cardinality(gone)]

\* lines 76-99: allow-list update, existence check, snapshot, directory listing
IndexNetworkBegin(p, path, quick_scan) ==
    /\ impl = "network"
    /\ procs[p].pc = "idle"
    /\ calls < MaxCalls
    /\ calls' = calls + 1
    /\ LET call == [StartedCall(procs[p], path, ~quick_scan) EXCEPT !.authorized = TRUE]
           list2 == add_network_path(allowed, path)
           network_path == NormPath(path)
           listing == network_listing(fs, network_path)
       IN  /\ allowed' = list2
           /\ procs' = [procs EXCEPT ![p] =
                 IF ~Exists(fs, network_path)
                 THEN [Track(call, files, docs, list2) EXCEPT
                         !.outcome = "ok", !.quiet = TRUE,
                         !.filesAfter = files, !.docsAfter = docs]
                 ELSE [Track(call, files, docs, list2) EXCEPT
                         !.pc = "walk", !.outcome = "running",
                         !.root = network_path,
                         !.existing = IF quick_scan
                                      THEN get_existing_network_files(files, network_path)
                                      ELSE {},
                         !.todo = listing,
                         !.encountered = Len(listing),
                         !.candidates = Len(listing)]]
    /\ UNCHANGED <<impl, fs, files, docs, fsOps>>

\* lines 103-150: the body of the loop for the next file of the listing
IndexNetworkFile(p) ==
    /\ impl = "network"
    /\ procs[p].pc = "walk"
    /\ procs[p].todo # <<>>
    /\ LET rec == procs[p]
           file_path == Head(rec.todo)
           ext == Lower(Suffix(Basename(file_path)))
           gone == file_path \notin FileSet \/ fs[file_path] = NoFile
           file_size == StSize(fs, file_path)
           modified_time == StMtime(fs, file_path)
           same == Unchanged(fs, rec.snapshot, file_path)
           known == file_path \in ExistingPaths(rec.existing)
           content == fs[file_path].text
           st == store_file(files, docs, file_path, ext, file_size, modified_time,
                            content, rec.root)
           verdict ==
               IF ext \notin supported_extensions THEN "skip_ext"
               ELSE IF gone THEN "stat_error"
               ELSE IF file_size > MaxFileSize THEN "skip_size"
               ELSE IF /\ ~rec.full /\ known
                       /\ \E e \in rec.existing :
                             e.path = file_path /\ e.mtime = modified_time
                    THEN "skip_unchanged"
               ELSE "reindex"
           result ==
               IF verdict # "reindex" THEN "-"
               ELSE IF ~ExtractorHasExtractText THEN "failed"
               ELSE IF Len(Strip(content)) < MinNetworkContent THEN "empty"
               ELSE "persisted"
           rows2 == IF result = "persisted" THEN st.rows ELSE files
           drows2 == IF result = "persisted" THEN st.drows ELSE docs
           stats2 ==
               IF verdict \in {"skip_ext", "skip_size", "skip_unchanged"}
                    \/ result = "empty"
               THEN [rec.stats EXCEPT !.skipped = @ + 1]
               ELSE IF verdict = "stat_error" \/ result = "failed"
               THEN [rec.stats EXCEPT !.errors = @ + 1]
               ELSE IF known THEN [rec.stats EXCEPT !.updated = @ + 1]
               ELSE [rec.stats EXCEPT !.indexed = @ + 1]
       IN  /\ files' = rows2
           /\ docs' = drows2
           /\ procs' = [procs EXCEPT ![p] =
                 [Track(rec, rows2, drows2, allowed) EXCEPT
                     !.todo = Tail(rec.todo),
                     !.stats = stats2,
                     !.step = FileStep(file_path, verdict, same, result,
                                 result # "persisted"
                                   \/ ChunksAre(rows2, drows2, file_path, <<content>>))]]
    /\ UNCHANGED <<impl, fs, allowed, fsOps, calls>>

\* lines 156-164: cleanup of missing files (quick scan only) and return
IndexNetworkFinish(p) ==
    /\ impl = "network"
    /\ procs[p].pc = "walk"
    /\ procs[p].todo = <<>>
    /\ LET rec == procs[p]
           c == cleanup_missing_files(fs, files, docs, rec.root)
           rows2 == IF ~rec.full THEN c.rows ELSE files
           drows2 == IF ~rec.full THEN c.drows ELSE docs
       IN  /\ files' = rows2
           /\ docs' = drows2
           /\ procs' = [procs EXCEPT ![p] =
                 [Track(rec, rows2, drows2, allowed) EXCEPT
                     !.pc = "idle", !.outcome = "ok",
                     !.existing = {}, !.snapshot = {},
                     !.stats = IF ~rec.full
                               THEN [rec.stats EXCEPT !.removed = c.removed]
                               ELSE rec.stats,
                     !.reconciled = ~rec.full,
                     !.quiet = (fsOps = rec.fs0),
                     !.filesAfter = rows2, !.docsAfter = drows2,
                     !.leftover = IF fsOps = rec.fs0
                                  THEN Leftover(fs, rows2, drows2, rec.root)
                                  ELSE {},
                     !.unindexed = IF fsOps = rec.fs0
                                   THEN Unindexed(fs, rows2, drows2, rec.root)
                                   ELSE {},
                     !.step = NoFileStep]]
    /\ UNCHANGED <<impl, fs, allowed, fsOps, calls>>

----------------------------------------------------------------------------
(* Specifications *)

\* the steps of the environment and of the callers in P
NextOf(P) ==
    \/ \E f \in WrittenFiles, t \in Texts :
          \E m \in WriteMtimes(f) : FsWrite(f, [text |-> t, mtime |-> m])
    \/ \E f \in DeletedFiles : FsDelete(f)
    \/ \E p \in P, root \in Roots, full \in BOOLEAN : IndexFolderBegin(p, root, full)
    \/ \E p \in P : IndexFolderFile(p)
    \/ \E p \in P : IndexFolderFinish(p)
    \/ \E p \in P, root \in Roots, quick \in BOOLEAN : IndexNetworkBegin(p, root, quick)
    \/ \E p \in P : IndexNetworkFile(p)
    \/ \E p \in P : IndexNetworkFinish(p)

\* one caller: index calls run one after the other
Next == NextOf({"p1"}) /\ UNCHANGED <<task, srch, chunker, view, txn>>

Spec == Init /\ [][Next]_vars

\* two callers: index calls interleave between files
NextPar == NextOf(Procs) /\ UNCHANGED <<task, srch, chunker, view, txn>>

SpecPar == Init /\ [][NextPar]_vars

----------------------------------------------------------------------------
(* Claims about index_root *)

\* a call of caller p has returned its counters
Completed(p) == procs[p].pc = "idle" /\ procs[p].outcome = "ok"

\* C1: a completed incremental index_root(R) that repeats the caller's last
\* completed incremental index_root(R), with no change of the tree or of the
\* tables in between, returns indexed = 0 and removed = 0 and changes no row.
C1_Idempotent ==
    \A p \in Procs :
        (Completed(p) /\ procs[p].repeat /\ procs[p].quiet)
            => /\ procs[p].stats.indexed = 0
               /\ procs[p].stats.removed = 0
               /\ ~procs[p].dirty

\* C2: when an index_root over a root completes, in either mode, with the
\* tree unchanged during the call, no path below the root that is missing on
\* disk has a File row or a chunk row.
C2_DeletionReconciled ==
    \A p \in Procs : Completed(p) => procs[p].leftover = {}

\* C3: a candidate file is skipped as unchanged exactly when the call is
\* incremental and the snapshot taken at the start of the crawl holds the path
\* with the size and the mtime the file has now.
C3_ChangeDecision ==
    \A p \in Procs :
        procs[p].step.verdict \in {"reindex", "skip_unchanged"}
            => (procs[p].step.verdict = "skip_unchanged"
                  <=> (~procs[p].full /\ procs[p].step.unchanged))

\* C4: after a file is (re-)indexed without a failure, the chunk rows of its
\* path are exactly the chunker's output for its present content, with
\* pointers chunk_0 .. chunk_{n-1} in order.
C4_ChunksReplaced ==
    \A p \in Procs :
        (procs[p].step.verdict = "reindex"
            /\ procs[p].step.result \in {"persisted", "empty"})
            => procs[p].step.chunksOk

\* C5: index_root(R) never deletes or modifies a File row whose path does not
\* lie below directory R.
C5_RootIsolation ==
    \A p \in Procs : ~procs[p].foreign

\* C6: index_root accepts a root exactly when the allow-list is empty or the
\* root is an allow-listed directory or lies below one.
C6_Authorization ==
    \A p \in Procs :
        procs[p].outcome # "none"
            => LET list == procs[p].allowed0
                   root == procs[p].root
               IN  procs[p].authorized
                     <=> \/ list = <<>>
                         \/ \E i \in 1..Len(list) :
                               \/ NormPath(root) = NormPath(list[i])
                               \/ IsUnder(root, list[i])

\* C7: an index_root whose root is outside the allow-list or does not exist
\* ends with an error outcome and leaves the File rows, the chunk rows and the
\* allow-list as they were.
C7_RejectedChangesNothing ==
    \A p \in Procs :
        (/\ procs[p].outcome \notin {"none", "running"}
         /\ \/ /\ procs[p].allowed0 # <<>>
               /\ \A i \in 1..Len(procs[p].allowed0) :
                     /\ NormPath(procs[p].root) # NormPath(procs[p].allowed0[i])
                     /\ ~IsUnder(procs[p].root, procs[p].allowed0[i])
            \/ NormPath(procs[p].root) \notin ExistingDirs)
            => /\ procs[p].outcome \in {"NotAuthorized", "RootMissing"}
               /\ ~procs[p].dirty
               /\ ~procs[p].allowChanged

\* C8: a call in which a file failed still processes every file of the walk,
\* runs deletion reconciliation and returns its counters.
C8_FailureDoesNotAbort ==
    \A p \in Procs :
        /\ procs[p].outcome # "raised"
        /\ (Completed(p) /\ procs[p].stats.errors > 0)
              => /\ procs[p].stats.indexed + procs[p].stats.updated
                       + procs[p].stats.skipped + procs[p].stats.errors
                       = procs[p].candidates
                 /\ procs[p].reconciled

\* C9: after a full index_root(R) completes, with the tree unchanged during
\* the call, every accepted file below R has a File row and a chunk row.
C9_FullModeComplete ==
    \A p \in Procs :
        (Completed(p) /\ procs[p].full /\ procs[p].quiet)
            => procs[p].unindexed = {}

\* C10: in a completed index_root every non-pruned file the walk encountered
\* is counted exactly once: indexed + skipped + errors = files encountered.
C10_CounterAccounting ==
    \A p \in Procs :
        (Completed(p) /\ NormPath(procs[p].root) \in ExistingDirs)
            => procs[p].stats.indexed + procs[p].stats.skipped
                 + procs[p].stats.errors = procs[p].encountered

----------------------------------------------------------------------------
(* index_folder as an asyncio task: priority and cancellation *)

\* index_folder takes no cancellation argument; the signal a caller has is
\* Task.cancel() on the task that runs the coroutine. asyncio raises
\* CancelledError in the coroutine where it is suspended, and the only
\* suspension of index_folder is asyncio.sleep(0.01), reached for
\* priority = "low" after a file whose loop body did not raise (lines 90-92).
\* CancelledError is not an Exception, so neither handler (lines 94, 110)
\* catches it: the call ends by raising it and returns no counters.


\* index_folder(root_path, full_reindex, priority) is called
IndexFolderStart(p, root_path, full_reindex, priority) ==
    /\ IndexFolderBegin(p, root_path, full_reindex)
    /\ task' = [task EXCEPT ![p] = [NoTask EXCEPT !.priority = priority]]
    /\ UNCHANGED <<srch, chunker, view, txn>>

\* the caller requests cancellation of its running task
CancelTask(p) ==
    /\ procs[p].pc = "walk"
    /\ ~task[p].cancel
    /\ task' = [task EXCEPT ![p].cancel = TRUE]
    /\ UNCHANGED <<impl, fs, allowed, files, docs, procs, fsOps, calls, srch, chunker, view, txn>>

\* the task is suspended in the sleep and its cancellation is pending
CancelDelivered(p) == task[p].asleep /\ task[p].cancel

\* lines 80-96 for the next file, up to the sleep of a low priority call
IndexFolderStep(p) ==
    /\ ~CancelDelivered(p)
    /\ IndexFolderFile(p)
    /\ task' = [task EXCEPT ![p].asleep =
                   /\ task[p].priority = "low"
                   /\ procs'[p].step.result # "failed"]
    /\ UNCHANGED <<srch, chunker, view, txn>>

\* lines 98-108 after the last file
IndexFolderEnd(p) ==
    /\ ~CancelDelivered(p)
    /\ IndexFolderFinish(p)
    /\ task' = [task EXCEPT
                   ![p].asleep = FALSE,
                   ![p].removedAfterCancel =
                       task[p].cancel /\ procs'[p].stats.removed > 0]
    /\ UNCHANGED <<srch, chunker, view, txn>>

\* asyncio.sleep raises CancelledError, which leaves index_folder uncaught
IndexFolderCancelled(p) ==
    /\ impl = "file"
    /\ procs[p].pc = "walk"
    /\ CancelDelivered(p)
    /\ procs' = [procs EXCEPT ![p] =
          [procs[p] EXCEPT !.pc = "idle", !.outcome = "CancelledError",
                           !.existing = {}, !.current_files = {},
                           !.snapshot = {}, !.todo = <<>>,
                           !.stats = ZeroStats, !.step = NoFileStep]]
    /\ task' = [task EXCEPT ![p].asleep = FALSE]
    /\ UNCHANGED <<impl, fs, allowed, files, docs, fsOps, calls, srch, chunker, view, txn>>


NextCancel ==
    \/ \E f \in DeletedFiles : FsDelete(f) /\ UNCHANGED <<task, srch, chunker, view, txn>>
    \/ \E root \in Roots, full \in BOOLEAN, priority \in {"normal", "low"} :
          IndexFolderStart("p1", root, full, priority)
    \/ CancelTask("p1")
    \/ IndexFolderStep("p1")
    \/ IndexFolderEnd("p1")
    \/ IndexFolderCancelled("p1")

InitCancel == Init /\ impl = "file"

SpecCancel == InitCancel /\ [][NextCancel]_vars

\* C11: a call of index_root whose cancellation was signalled ends as
\* cancelled with its partial counters, and removes no File row after the
\* signal.
C11_Cancellation ==
    \A p \in Procs :
        (task[p].cancel /\ procs[p].pc = "idle")
            => /\ procs[p].outcome = "cancelled"
               /\ ~task[p].removedAfterCancel

----------------------------------------------------------------------------
(* search_agent/search.py and simple_search.py: the query parsers *)

Quote == "\""

\* the characters the regular expression class \w matches
WordChars == {"a", "b", "c", "d", "o", "r", "n", "A", "B", "O", "R", "N", "D", "_"}

\* re.findall(r'"([^"]*)"', s) and re.sub(r'"[^"]*"', '', s): the quoted
\* substrings from left to right, and the string without them
RECURSIVE ScanQuotes(_, _, _, _)
ScanQuotes(s, i, phrases, remaining) ==
    IF i > Len(s) THEN [phrases |-> phrases, remaining |-> remaining]
    ELSE LET closing == {j \in (i + 1)..Len(s) : s[j] = Quote}
         IN  IF s[i] = Quote /\ closing # {}
             THEN LET j == CHOOSE x \in closing : \A y \in closing : x <= y
                  IN  ScanQuotes(s, j + 1,
                                 Append(phrases, SubSeq(s, i + 1, j - 1)),
                                 remaining)
             ELSE ScanQuotes(s, i + 1, phrases, Append(remaining, s[i]))

\* str.split(): the maximal runs of non-whitespace characters
RECURSIVE Split(_)
Split(s) ==
    LET t == LStrip(s)
        stops == {i \in 1..Len(t) : t[i] \in Whitespace}
        stop == IF stops = {} THEN Len(t) + 1
                ELSE CHOOSE x \in stops : \A y \in stops : x <= y
    IN  IF t = <<>> THEN <<>>
        ELSE <<SubSeq(t, 1, stop - 1)>> \o Split(SubSeq(t, stop, Len(t)))

\* sep.join(parts)
RECURSIVE Join(_, _)
Join(parts, sep) ==
    IF parts = <<>> THEN <<>>
    ELSE IF Len(parts) = 1 THEN parts[1]
    ELSE parts[1] \o sep \o Join(Tail(parts), sep)

IsWordChar(c) == c \in WordChars

\* the expression _build_fts_query returns for an empty query
MatchAll == <<"*">>


\* SearchEngine._build_fts_query
build_fts_query(query0) ==
    LET query == Strip(query0)
        scan == ScanQuotes(query, 1, <<>>, <<>>)
        phrases == scan.phrases
        terms == Split(scan.remaining)
        quoted == [i \in 1..Len(phrases) |-> <<Quote>> \o phrases[i] \o <<Quote>>]
        kept == SelectSeq(quoted, LAMBDA x : Strip(SubSeq(x, 2, Len(x) - 1)) # <<>>)
        escaped == [i \in 1..Len(terms) |-> SelectSeq(terms[i], IsWordChar)]
        escaped_terms == SelectSeq(escaped, LAMBDA t : t # <<>>)
        query_parts == IF escaped_terms = <<>> THEN kept
                       ELSE Append(kept, Join(escaped_terms, <<" ", "O", "R", " ">>))
    IN  IF query = <<>> THEN MatchAll
        ELSE IF query_parts # <<>> THEN Join(query_parts, <<" ">>)
        ELSE query

\* SimpleFileSearch._prepare_fts_query
prepare_fts_query(query) ==
    LET clean_query == [i \in 1..Len(query) |->
                           IF IsWordChar(query[i]) \/ query[i] \in Whitespace
                              \/ query[i] \in {".", "-"}
                           THEN query[i] ELSE " "]
        words == SelectSeq(Split(clean_query), LAMBDA w : Len(w) >= 2)
        terms == [i \in 1..Len(words) |->
                     IF Len(words[i]) >= 3 THEN Append(words[i], "*")
                     ELSE words[i]]
    IN  IF terms # <<>> THEN Join(terms, <<" ", "A", "N", "D", " ">>) ELSE query

----------------------------------------------------------------------------
(* _index_file as a transaction, with a query reading in between *)

\* _index_file opens its connection with sqlite3.connect(...) as conn: the
\* statements inside the with-block run in one transaction, which the block
\* commits when it ends normally and rolls back when it ends by an exception.
\* A query runs on a connection of its own.

\* the next file of caller p's walk reaches the with-block of _index_file
WritesFile(p) ==
    LET rec == procs[p]
        file_path == Head(rec.todo)
    IN  /\ should_index_file(fs, file_path, rec.existing, rec.full)
        /\ file_path \in FileSet /\ fs[file_path] # NoFile
        /\ extract_content(file_path, fs[file_path].text) # <<>>

\* lines 212-222: the connection is opened and INSERT OR REPLACE INTO files
\* runs inside the transaction
TxnBegin(p) ==
    /\ impl = "file"
    /\ procs[p].pc = "walk"
    /\ procs[p].todo # <<>>
    /\ ~txn.open
    /\ WritesFile(p)
    /\ LET file_path == Head(procs[p].todo)
           up == InsertOrReplaceFile(files, file_path, StSize(fs, file_path),
                     StMtime(fs, file_path),
                     Lower(Suffix(Basename(file_path))), NoTag)
       IN  txn' = [txn EXCEPT !.open = TRUE, !.owner = p, !.path = file_path,
                              !.rows = up.rows, !.drows = docs]
    /\ UNCHANGED <<impl, fs, allowed, files, docs, procs, fsOps, calls, task, srch, chunker, view>>

\* lines 224-242: the rest of the with-block and its exit, commit or rollback
TxnEnd(p) ==
    /\ txn.open
    /\ txn.owner = p
    /\ IndexFolderFile(p)
    /\ LET failed == procs'[p].step.result = "failed"
       IN  txn' = [txn EXCEPT
                      !.open = FALSE, !.owner = "-", !.path = <<>>,
                      !.rows = {}, !.drows = {},
                      !.versions = IF procs'[p].step.result = "persisted"
                                   THEN @ \cup {VersionOf(files', docs', txn.path)}
                                   ELSE @,
                      !.interrupted = @ \/ failed,
                      !.intact = @ /\ (failed =>
                                    VersionOf(files', docs', txn.path)
                                      = VersionOf(files, docs, txn.path))]
    /\ UNCHANGED <<task, srch, chunker, view>>

\* the body of the loop for a file that does not reach the with-block
PlainFile(p) ==
    /\ IndexFolderFile(p)
    /\ ~txn.open
    /\ ~WritesFile(p)
    /\ UNCHANGED <<task, srch, chunker, view, txn>>

\* the tables a DirtyView reader would see: the open transaction's
DirtyView ==
    IF txn.open THEN [rows |-> txn.rows, drows |-> txn.drows]
    ELSE [rows |-> files, drows |-> docs]

\* the tables a query's own connection sees: the committed ones
ReaderView == [rows |-> files, drows |-> docs]

\* _execute_search: the SELECT over docs JOIN files on the query's connection
ReadTables ==
    /\ txn' = [txn EXCEPT !.seen = ReaderView, !.during = @ \/ txn.open]
    /\ UNCHANGED <<impl, fs, allowed, files, docs, procs, fsOps, calls, task, srch, chunker, view>>


NextAtomic ==
    \/ \E f \in WrittenFiles, t \in Texts :
          \E m \in WriteMtimes(f) :
              FsWrite(f, [text |-> t, mtime |-> m]) /\ UNCHANGED <<task, srch, chunker, view, txn>>
    \/ \E f \in DeletedFiles : FsDelete(f) /\ UNCHANGED <<task, srch, chunker, view, txn>>
    \/ \E root \in Roots, full \in BOOLEAN :
          IndexFolderBegin("p1", root, full) /\ UNCHANGED <<task, srch, chunker, view, txn>>
    \/ TxnBegin("p1")
    \/ TxnEnd("p1")
    \/ PlainFile("p1")
    \/ IndexFolderFinish("p1") /\ UNCHANGED <<task, srch, chunker, view, txn>>
    \/ ReadTables

InitAtomic == Init /\ impl = "file"

SpecAtomic == InitAtomic /\ [][NextAtomic]_vars

----------------------------------------------------------------------------
(* SQLite FTS5: what  docs MATCH ?  does with the expression it is given *)

\* the letters of the model's texts and their lower-case forms
Alnum == WordChars \ {"_"}

FoldCase(c) ==
    CASE c = "A" -> "a"
      [] c = "B" -> "b"
      [] c = "O" -> "o"
      [] c = "R" -> "r"
      [] c = "N" -> "n"
      [] c = "D" -> "d"
      [] OTHER -> c

\* the unicode61 tokenizer: maximal runs of letters and digits, case-folded;
\* every other character, the underscore included, separates tokens
RECURSIVE Tokenize(_)
Tokenize(s) ==
    LET starts == {i \in 1..Len(s) : s[i] \in Alnum}
        start == CHOOSE x \in starts : \A y \in starts : x <= y
        stops == {i \in start..Len(s) : s[i] \notin Alnum}
        stop == IF stops = {} THEN Len(s) + 1
                ELSE CHOOSE x \in stops : \A y \in stops : x <= y
    IN  IF starts = {} THEN <<>>
        ELSE <<[i \in 1..(stop - start) |-> FoldCase(s[start + i - 1])]>>
                \o Tokenize(SubSeq(s, stop, Len(s)))


\* the position of the quote that closes the string whose text begins at j
\* (a doubled quote inside a string stands for one quote), 0 when none does
RECURSIVE StringEnd(_, _)
StringEnd(e, j) ==
    IF j > Len(e) THEN 0
    ELSE IF e[j] # Quote THEN StringEnd(e, j + 1)
    ELSE IF j + 1 <= Len(e) /\ e[j + 1] = Quote THEN StringEnd(e, j + 2)
    ELSE j

\* the FTS5 lexer: ok is FALSE on a character that starts no token and on an
\* unterminated string (fts5: syntax error, or "unknown special query" for *)
RECURSIVE Lex(_, _, _)
Lex(e, i, toks) ==
    IF i > Len(e) THEN [ok |-> TRUE, toks |-> toks]
    ELSE IF e[i] \in Whitespace THEN Lex(e, i + 1, toks)
    ELSE IF e[i] = Quote
    THEN LET close == StringEnd(e, i + 1)
         IN  IF close = 0 THEN [ok |-> FALSE, toks |-> toks]
             ELSE Lex(e, close + 1,
                      Append(toks, [type |-> "STR", text |-> SubSeq(e, i + 1, close - 1), prefix |-> FALSE]))
    ELSE IF IsWordChar(e[i])
    THEN LET stops == {j \in i..Len(e) : ~IsWordChar(e[j])}
             stop == IF stops = {} THEN Len(e) + 1
                     ELSE CHOOSE x \in stops : \A y \in stops : x <= y
             word == SubSeq(e, i, stop - 1)
         IN  Lex(e, stop,
                 Append(toks, IF word = <<"O", "R">> THEN [type |-> "OR", text |-> word, prefix |-> FALSE]
                              ELSE IF word = <<"A", "N", "D">> THEN [type |-> "AND", text |-> word, prefix |-> FALSE]
                              ELSE [type |-> "STR", text |-> word, prefix |-> FALSE]))
    ELSE IF /\ e[i] = "*" /\ toks # <<>>
            /\ toks[Len(toks)].type = "STR" /\ ~toks[Len(toks)].prefix
    THEN Lex(e, i + 1, [toks EXCEPT ![Len(toks)].prefix = TRUE])
    ELSE [ok |-> FALSE, toks |-> toks]

\* the FTS5 grammar over these tokens: alternatives separated by OR, each a
\* chain of AND-ed runs of adjacent phrases; ok is FALSE when an operator
\* lacks an operand. A phrase is the token sequence of its text.
RECURSIVE ParseToks(_, _, _, _)
ParseToks(toks, i, groups, operand) ==
    IF i > Len(toks) THEN [ok |-> ~operand, groups |-> groups]
    ELSE LET t == toks[i]
             g == Len(groups)
             a == Len(groups[g])
         IN  IF t.type = "STR"
             THEN ParseToks(toks, i + 1,
                      [groups EXCEPT ![g][a] =
                          Append(@, [tokens |-> Tokenize(t.text), prefix |-> t.prefix])],
                      FALSE)
             ELSE IF operand THEN [ok |-> FALSE, groups |-> groups]
             ELSE IF t.type = "OR"
             THEN ParseToks(toks, i + 1, Append(groups, <<<<>>>>), TRUE)
             ELSE ParseToks(toks, i + 1, [groups EXCEPT ![g] = Append(@, <<>>)], TRUE)

\* the parsed expression, ok = FALSE when FTS5 rejects it
Fts5Parse(e) ==
    LET lexed == Lex(e, 1, <<>>)
    IN  IF ~lexed.ok THEN [ok |-> FALSE, groups |-> <<>>]
        ELSE ParseToks(lexed.toks, 1, <<<<<<>>>>>>, TRUE)

\* the tokens of the phrase occur in the document next to each other and in
\* order; the last one as a prefix when the phrase ends in *
PhraseIn(phrase, doc) ==
    LET m == Len(phrase.tokens)
    IN  \E s \in 0..(Len(doc) - m) :
            \A j \in 1..m :
                IF j = m /\ phrase.prefix
                THEN StartsWith(doc[s + j], phrase.tokens[j])
                ELSE doc[s + j] = phrase.tokens[j]

\* the row of content matches the parsed expression. In a run of adjacent
\* phrases those without tokens are dropped, and the run matches the documents
\* that hold every phrase left; without any it matches none
Fts5Matches(groups, content) ==
    LET doc == Tokenize(content)
        live(run) == SelectSeq(run, LAMBDA ph : ph.tokens # <<>>)
    IN  \E g \in 1..Len(groups) :
            \A a \in 1..Len(groups[g]) :
                /\ live(groups[g][a]) # <<>>
                /\ \A i \in 1..Len(live(groups[g][a])) :
                      PhraseIn(live(groups[g][a])[i], doc)

----------------------------------------------------------------------------
(* search_agent/search.py: SearchEngine, and simple_search.py *)

\* the chunks of the index
Contents ==
    {<<"a", "b", " ", "c", "d">>, <<"c", "d">>, <<"c", "d", " ", "a", "b">>,
     <<"a", "b">>}

\* The index the searches run on, as the database file holds it: /a/f.txt
\* (modified 2024-06-01) with chunks "ab cd" and "cd", /a/p.py (modified
\* 2023-06-01) with chunk "cd ab", /ab/g.txt (modified 2024-06-01) with chunk
\* "ab". mtime is in seconds since the epoch, as os.stat gives it.
CorpusRows(tagged) ==
    {FileRow(1, FA1, 8, 1717200000, ExtTxt, IF tagged THEN RootA ELSE NoTag),
     FileRow(2, <<"/", "a", "/", "p", ".", "p", "y">>, 5, 1685577600, ExtPy, IF tagged THEN RootA ELSE NoTag),
     FileRow(3, FB1, 2, 1717200000, ExtTxt, IF tagged THEN RootAB ELSE NoTag)}

CorpusDocs(tagged) ==
    IF tagged
    THEN {DocRow(1, 1, NoPointer, <<"a", "b", " ", "c", "d">>),
          DocRow(2, 2, NoPointer, <<"c", "d", " ", "a", "b">>),
          DocRow(3, 3, NoPointer, <<"a", "b">>)}
    ELSE {DocRow(1, 1, Pointer(0), <<"a", "b", " ", "c", "d">>),
          DocRow(2, 1, Pointer(1), <<"c", "d">>),
          DocRow(3, 2, Pointer(0), <<"c", "d", " ", "a", "b">>),
          DocRow(4, 3, Pointer(0), <<"a", "b">>)}

Digits == <<"0", "1", "2", "3", "4", "5", "6", "7", "8", "9">>

RECURSIVE DigitsValue(_)
DigitsValue(s) ==
    IF s = <<>> THEN 0
    ELSE 10 * DigitsValue(SubSeq(s, 1, Len(s) - 1))
           + (CHOOSE d \in 0..9 : Digits[d + 1] = s[Len(s)])

\* int(year): ok is FALSE where int raises ValueError
ParseInt(s) ==
    LET t == Strip(s)
    IN  IF t = <<>> \/ \E i \in 1..Len(t) : \A d \in 1..10 : Digits[d] # t[i]
        THEN [ok |-> FALSE, value |-> 0]
        ELSE [ok |-> TRUE, value |-> DigitsValue(t)]

\* The numbers of the years filter have fourteen digits; a number n is held
\* as its digits in base 10^5: <<n div 10^10, n div 10^5 mod 10^5, n mod 10^5>>
Wide(n) == <<0, n \div 100000, n % 100000>>

WideLeq(x, y) ==
    \/ x[1] < y[1]
    \/ x[1] = y[1] /\ x[2] < y[2]
    \/ x[1] = y[1] /\ x[2] = y[2] /\ x[3] <= y[3]

\* SearchEngine._build_filters: the WHERE clauses with their parameters
build_filters(file_extensions, years, roots) ==
    LET parsed == [i \in 1..Len(years) |-> ParseInt(years[i])]
        valid == SelectSeq(parsed, LAMBDA y : y.ok)
    IN  [ext_in |-> file_extensions,
         \* int(f"{year_int}0101000000") and int(f"{year_int}1231235959")
         year_conditions |-> [i \in 1..Len(valid) |->
                                 [start_ts |-> <<valid[i].value, 1010, 0>>,
                                  end_ts |-> <<valid[i].value, 12312, 35959>>]],
         path_like |-> roots]

\* a clause that accepts every extension
ExtAny(ext_in, f) == TRUE

\* f.ext IN (?, ..., ?)
ExtIn(ext_in, f) == \E i \in 1..Len(ext_in) : f.ext = ext_in[i]

\* the row f of files satisfies the clauses
WhereAccepts(where, f) ==
    /\ where.ext_in # <<>> => ExtIn(where.ext_in, f)
    /\ where.year_conditions # <<>> =>
          \E i \in 1..Len(where.year_conditions) :
              /\ WideLeq(where.year_conditions[i].start_ts, Wide(f.mtime))
              /\ WideLeq(Wide(f.mtime), where.year_conditions[i].end_ts)
    /\ where.path_like # <<>> =>
          \E i \in 1..Len(where.path_like) : StartsWith(f.path, where.path_like[i])

\* ORDER BY rank: ascending, rows of equal rank in rowid order
RECURSIVE InRankOrder(_, _)
InRankOrder(hits, rank) ==
    IF hits = {} THEN <<>>
    ELSE LET d == CHOOSE x \in hits : \A y \in hits :
                      \/ rank[x.content] < rank[y.content]
                      \/ rank[x.content] = rank[y.content] /\ x.rowid <= y.rowid
         IN  <<d>> \o InRankOrder(hits \ {d}, rank)

\* one row of the SELECT (the snippet of a short chunk is the chunk)
ResultOf(rows, d, rank) ==
    LET f == CHOOSE x \in rows : x.id = d.file_id
    IN  [path |-> f.path, pointer |-> d.pointer, snippet |-> d.content,
         score |-> rank[d.content], ext |-> f.ext, modified |-> f.mtime]

\* SearchEngine._execute_search; with LIMIT 0 SQLite returns no row without
\* evaluating the MATCH expression
execute_search(rows, drows, rank, fts_query, where, limit) ==
    LET parsed == Fts5Parse(fts_query)
        hits == {d \in drows :
                    /\ Fts5Matches(parsed.groups, d.content)
                    /\ \E f \in rows : f.id = d.file_id /\ WhereAccepts(where, f)}
        ordered == InRankOrder(hits, rank)
    IN  IF ~parsed.ok /\ limit > 0 THEN [raised |-> TRUE, results |-> <<>>]
        ELSE IF limit = 0 THEN [raised |-> FALSE, results |-> <<>>]
        ELSE [raised |-> FALSE,
              results |-> [i \in 1..Min(limit, Len(ordered)) |->
                              ResultOf(rows, ordered[i], rank)]]

\* results.sort(key = score, reverse = True): descending, stable
RECURSIVE SortReverse(_)
SortReverse(results) ==
    IF results = <<>> THEN <<>>
    ELSE LET i == CHOOSE x \in 1..Len(results) : \A y \in 1..Len(results) :
                      \/ results[x].score > results[y].score
                      \/ results[x].score = results[y].score /\ x <= y
         IN  <<results[i]>>
               \o SortReverse(SubSeq(results, 1, i - 1)
                                \o SubSeq(results, i + 1, Len(results)))

\* SearchEngine._semantic_rerank
semantic_rerank(semantic_model, sim, results) ==
    IF ~semantic_model \/ Len(results) <= 1 THEN results
    ELSE SortReverse([i \in 1..Len(results) |->
            [results[i] EXCEPT
                !.score = (7 * @ + 3 * sim[results[i].snippet]) \div 10]])

\* a slice that ends at k instead of offset + k
SliceToK(results, offset, k) == Slice(results, offset, k)

\* line 93: results[offset:offset + k]
Paginate(results, offset, k) == Slice(results, offset, offset + k)

\* SearchEngine.search
search(rows, drows, engine, query, k, offset, file_extensions, years, roots) ==
    LET fts_query == build_fts_query(query)
        where == build_filters(file_extensions, years, roots)
        exec == execute_search(rows, drows, engine.rank, fts_query, where, k + offset)
        results == IF engine.semantic_model /\ exec.results # <<>>
                   THEN semantic_rerank(engine.semantic_model, engine.sim, exec.results)
                   ELSE exec.results
        paginated_results == Paginate(results, offset, k)
    IN  [engine EXCEPT
            !.engine = "SearchEngine", !.query = query, !.k = k, !.offset = offset,
            !.file_extensions = file_extensions, !.years = years, !.roots = roots,
            !.fts_query = fts_query,
            !.outcome = IF exec.raised THEN "raised" ELSE "ok",
            !.fetched = exec.results,
            !.batch = results,
            !.items = paginated_results,
            !.pagination = [offset |-> IF exec.raised THEN 0 ELSE offset,
                            returned |-> Len(paginated_results),
                            total_estimate |-> Len(results)]]

\* SimpleFileSearch.search, ORDER BY relevance_score DESC LIMIT max_results;
\* an error of SQLite is caught and gives no rows
simple_search(rows, drows, engine, query, max_results, file_types) ==
    LET clean_query == prepare_fts_query(query)
        parsed == Fts5Parse(clean_query)
        hits == {d \in drows :
                    /\ parsed.ok
                    /\ Fts5Matches(parsed.groups, d.content)
                    /\ \E f \in rows :
                          /\ SearchIndexKeepsColumns /\ d.file_id = f.id
                          /\ file_types # <<>> =>
                                \E i \in 1..Len(file_types) : f.ext = file_types[i]}
        short == Len(Strip(query)) < 2
        ascending == InRankOrder(hits, engine.rank)
        results == IF short THEN <<>>
                   ELSE [i \in 1..Min(max_results, Cardinality(hits)) |->
                            ResultOf(rows, ascending[Len(ascending) + 1 - i],
                                     engine.rank)]
    IN  [engine EXCEPT
            !.engine = "SimpleFileSearch", !.query = query, !.k = max_results,
            !.offset = 0, !.file_extensions = file_types, !.years = <<>>,
            !.roots = <<>>,
            !.fts_query = IF short THEN <<>> ELSE clean_query,
            !.outcome = "ok",
            !.fetched = results, !.batch = results, !.items = results,
            !.pagination = [offset |-> 0, returned |-> Len(results),
                            total_estimate |-> Len(results)]]

----------------------------------------------------------------------------
(* Searches on a fixed index *)

MaxK == 2
MaxOffset == 2

\* the queries a caller passes
Queries ==
    {<<"a", "b">>, <<"c", "d">>, <<"a", "b", " ", "c", "d">>,
     <<Quote, "a", "b", " ", "c", "d", Quote>>,
     <<>>, <<" ">>, <<"!">>, <<Quote, Quote>>, <<"a">>}

NoFilter == [file_extensions |-> <<>>, years |-> <<>>, roots |-> <<>>]

\* the filter arguments a caller passes
Filters ==
    {NoFilter,
     [NoFilter EXCEPT !.file_extensions = <<ExtPy>>],
     [NoFilter EXCEPT !.file_extensions = <<ExtMd, ExtTxt>>],
     [NoFilter EXCEPT !.years = <<<<"2", "0", "2", "4">>>>],
     [NoFilter EXCEPT !.years = <<<<"x">>, <<"2", "0", "2", "3">>>>],
     [NoFilter EXCEPT !.years = <<<<"x">>>>],
     [NoFilter EXCEPT !.roots = <<RootA>>]}

\* SearchEngine.__init__ (lines 30-45): semantic_model is set when the
\* sentence_transformers import succeeded and the configuration enables
\* semantic search. AISearchEnhancer(self.config) reads an attribute of the
\* configuration dictionary, fails and stays unavailable, so search never
\* rewrites the query. Scores are held in tenths; bm25 ranks are negative,
\* lower is better.
InitSearch ==
    /\ impl \in {"file", "network"}
    /\ fs = InitTree
    /\ allowed = <<>>
    /\ files = CorpusRows(impl = "network")
    /\ docs = CorpusDocs(impl = "network")
    /\ procs = [p \in Procs |-> IdleProc]
    /\ fsOps = 0
    /\ calls = 0
    /\ task = [p \in Procs |-> NoTask]
    /\ txn = NoTxn(files, docs)
    /\ chunker = NoChunker
    /\ view = NoView
    /\ \E semantic \in BOOLEAN, rank \in [Contents -> {-20, -10}],
          sim \in [Contents -> {0, 10}] :
          /\ impl = "network" => ~semantic /\ rank = [c \in Contents |-> -10]
          /\ ~semantic => sim = [c \in Contents |-> 0]
          /\ srch = [NoSearch EXCEPT !.semantic_model = semantic,
                                     !.rank = rank, !.sim = sim]

\* A search writes nothing to the index and keeps nothing in the engine, so
\* its result depends on the index, the engine's configuration and the
\* arguments only: each behaviour runs one search on the engine it built.

\* await engine.search(query, k, offset, file_extensions, years, roots)
Search(query, k, offset, filter) ==
    /\ impl = "file"
    /\ srch.engine = "none"
    /\ srch' = search(files, docs, srch, query, k, offset,
                      filter.file_extensions, filter.years, filter.roots)
    /\ UNCHANGED <<impl, fs, allowed, files, docs, procs, fsOps, calls, task, txn,
                 chunker, view>>

\* SimpleFileSearch().search(query, max_results, file_types)
SimpleSearch(query, max_results, file_types) ==
    /\ impl = "network"
    /\ srch.engine = "none"
    /\ srch' = simple_search(files, docs, srch, query, max_results, file_types)
    /\ UNCHANGED <<impl, fs, allowed, files, docs, procs, fsOps, calls, task, txn,
                 chunker, view>>

NextSearch ==
    \/ \E query \in Queries, k \in 0..MaxK, offset \in 0..MaxOffset, filter \in Filters :
          Search(query, k, offset, filter)
    \/ \E query \in Queries, max_results \in 1..MaxK, filter \in Filters :
          SimpleSearch(query, max_results, filter.file_extensions)

SpecSearch == InitSearch /\ [][NextSearch]_vars

----------------------------------------------------------------------------
(* Claims about the query parser and the search *)

\* C13: for a query of several unquoted terms, each a word of two or more
\* characters, the expression handed to MATCH joins the terms without the OR
\* connective, and every returned chunk holds, for each term, a token that
\* begins with it.
C13_AndSemantics ==
    LET terms == Split(srch.query)
    IN  (/\ srch.engine # "none"
         /\ srch.outcome = "ok"
         /\ \A i \in 1..Len(srch.query) : srch.query[i] # Quote
         /\ Len(terms) >= 2
         /\ \A i \in 1..Len(terms) :
               Len(terms[i]) >= 2 /\ \A j \in 1..Len(terms[i]) : terms[i][j] \in Alnum)
            => /\ \A t \in 1..Len(Lex(srch.fts_query, 1, <<>>).toks) :
                     Lex(srch.fts_query, 1, <<>>).toks[t].type # "OR"
               /\ \A n \in 1..Len(srch.items) : \A i \in 1..Len(terms) :
                     \E w \in 1..Len(Tokenize(srch.items[n].snippet)) :
                         StartsWith(Tokenize(srch.items[n].snippet)[w],
                                    Tokenize(terms[i])[1])

\* C14: every double-quoted substring of the user query appears in the
\* expression handed to MATCH as a quoted phrase, in the original order and
\* with its words unchanged, and a search for one quoted phrase of two words
\* returns only chunks that hold the two tokens next to each other in that
\* order.
C14_PhrasePreserved ==
    LET phrases == ScanQuotes(Strip(srch.query), 1, <<>>, <<>>).phrases
        lexed == Lex(srch.fts_query, 1, <<>>)
        strings == SelectSeq(lexed.toks, LAMBDA t : t.type = "STR" /\ Len(Tokenize(t.text)) >= 2)
        worded == SelectSeq(phrases, LAMBDA ph : Len(Tokenize(ph)) >= 2)
    IN  (srch.engine # "none" /\ srch.outcome = "ok" /\ srch.fts_query # <<>>)
            => /\ Len(strings) = Len(worded)
               /\ \A i \in 1..Len(worded) : strings[i].text = worded[i]
               /\ (Len(worded) = 1 /\ Len(phrases) = 1
                      /\ Strip(srch.query) = <<Quote>> \o phrases[1] \o <<Quote>>)
                    => \A n \in 1..Len(srch.items) :
                          PhraseIn([tokens |-> Tokenize(worded[1]), prefix |-> FALSE],
                                   Tokenize(srch.items[n].snippet))

\* C15: when no phrase and no term survives from the query (it is empty or
\* blank, or holds only punctuation, empty quotes or one-character tokens),
\* the expression SearchEngine hands to MATCH is the match-all expression.
C15_DegradesToMatchAll ==
    LET scan == ScanQuotes(Strip(srch.query), 1, <<>>, <<>>)
        phrases == SelectSeq(scan.phrases, LAMBDA ph : Strip(ph) # <<>>)
        terms == SelectSeq(Split(scan.remaining),
                           LAMBDA t : Len(SelectSeq(t, IsWordChar)) >= 2)
    IN  (srch.engine = "SearchEngine" /\ phrases = <<>> /\ terms = <<>>)
            => srch.fts_query = MatchAll

C17_PaginationRecord ==
    (srch.engine = "SearchEngine" /\ srch.outcome = "ok")
        => /\ srch.pagination.returned = Len(srch.items)
           /\ Len(srch.items) <= srch.k
           /\ Len(srch.items) = Max(0, Min(srch.k, Len(srch.batch) - srch.offset))
           /\ \A i \in 1..Len(srch.items) : srch.items[i] = srch.batch[srch.offset + i]
           /\ srch.pagination.offset = srch.offset
           /\ srch.pagination.total_estimate = Len(srch.batch)
           /\ Len(srch.batch) = Len(srch.fetched)
           /\ (\A d \in docs : ~Fts5Matches(Fts5Parse(srch.fts_query).groups, d.content))
                 => srch.items = <<>> /\ srch.pagination.total_estimate = 0

\* C17 witness: a search with a positive offset returned fewer items than the
\* batch holds, the second of two fetched rows
C17_Witness ==
    /\ srch.engine = "SearchEngine" /\ srch.outcome = "ok"
    /\ srch.offset = 1 /\ srch.k = 1
    /\ Len(srch.batch) = 2
    /\ srch.items = <<srch.batch[2]>>
    /\ srch.pagination = [offset |-> 1, returned |-> 1, total_estimate |-> 2]

C19_ExtensionFilter ==
    LET listed(ext) == \E i \in 1..Len(srch.file_extensions) :
                           srch.file_extensions[i] = ext
        where == build_filters(<<>>, srch.years, srch.roots)
        wanted == {d \in docs :
                      /\ Fts5Matches(Fts5Parse(srch.fts_query).groups, d.content)
                      /\ \E f \in files :
                            f.id = d.file_id /\ listed(f.ext) /\ WhereAccepts(where, f)}
    IN  (/\ srch.engine = "SearchEngine" /\ srch.outcome = "ok"
         /\ srch.file_extensions # <<>>)
            => /\ \A i \in 1..Len(srch.items) : listed(srch.items[i].ext)
               /\ \A i \in 1..Len(srch.items) :
                     \E f \in files : f.path = srch.items[i].path /\ listed(f.ext)
               /\ Len(srch.batch) < srch.k + srch.offset
                     => \A d \in wanted : \E i \in 1..Len(srch.batch) :
                           /\ srch.batch[i].pointer = d.pointer
                           /\ \E f \in files :
                                 f.id = d.file_id /\ f.path = srch.batch[i].path

\* C19 witness: a search for "cd" filtered to .py returned the chunk of
\* /a/p.py and nothing else, although chunks of /a/f.txt match as well
C19_Witness ==
    /\ srch.engine = "SearchEngine" /\ srch.outcome = "ok"
    /\ srch.query = <<"c", "d">>
    /\ srch.file_extensions = <<ExtPy>>
    /\ srch.k = 2 /\ srch.offset = 0
    /\ Len(srch.items) = 1
    /\ srch.items[1].path = <<"/", "a", "/", "p", ".", "p", "y">>

\* C20: when a search is given years, a chunk that matches the query (and
\* passes the other filters) is in the fetched batch, when the batch is not
\* full, if and only if the mtime of its file, in seconds since the epoch,
\* lies between the first and the last second of one of the listed years.
C20_YearsFilter ==
    LET Leaps(n) == (n \div 4) - (n \div 100) + (n \div 400)
        StartOfYear(y) == 86400 * (365 * (y - 1970) + Leaps(y - 1) - Leaps(1969))
        listed == {ParseInt(srch.years[i]).value :
                      i \in {j \in 1..Len(srch.years) : ParseInt(srch.years[j]).ok}}
        InListedYear(mtime) ==
            \E y \in listed : StartOfYear(y) <= mtime /\ mtime < StartOfYear(y + 1)
        where == build_filters(srch.file_extensions, <<>>, srch.roots)
        matching == {d \in docs :
                        /\ Fts5Matches(Fts5Parse(srch.fts_query).groups, d.content)
                        /\ \E f \in files : f.id = d.file_id /\ WhereAccepts(where, f)}
        InBatch(d) == \E i \in 1..Len(srch.batch) :
                          /\ srch.batch[i].pointer = d.pointer
                          /\ \E f \in files : f.id = d.file_id /\ f.path = srch.batch[i].path
    IN  (/\ srch.engine = "SearchEngine" /\ srch.outcome = "ok"
         /\ listed # {}
         /\ Len(srch.batch) < srch.k + srch.offset)
            => \A d \in matching :
                   InBatch(d) <=> \E f \in files : f.id = d.file_id /\ InListedYear(f.mtime)

----------------------------------------------------------------------------
(* ContentExtractor._chunk_text, one step per iteration of its loop *)

MaxChunkSize == 5
MaxTextLen == 6

\* the loop is followed for one iteration more than a loop whose start grows
\* on every iteration can make on the longest text
MaxIter == MaxTextLen + 1

\* a start that leaves out the character at end
SkippingStart(end, overlap) == end + 1

\* line 336: start = end - self.chunk_overlap
NextStart(end, overlap) == end - overlap

\* ContentExtractor(chunk_size, chunk_overlap) with 0 <= chunk_overlap < chunk_size
InitChunk ==
    /\ impl = "file"
    /\ fs = InitTree
    /\ allowed = <<>>
    /\ files = {}
    /\ docs = {}
    /\ procs = [p \in Procs |-> IdleProc]
    /\ fsOps = 0
    /\ calls = 0
    /\ task = [p \in Procs |-> NoTask]
    /\ srch = NoSearch
    /\ txn = NoTxn(files, docs)
    /\ view = NoView
    /\ \E size \in 1..MaxChunkSize : \E overlap \in 0..(size - 1) :
          chunker = [NoChunker EXCEPT !.chunk_size = size, !.chunk_overlap = overlap]

\* lines 314-318: _chunk_text(text) up to the head of the loop
ChunkTextBegin(text) ==
    /\ chunker.pc = "idle"
    /\ chunker' =
          IF Len(text) <= chunker.chunk_size
          THEN [chunker EXCEPT !.text = text, !.pc = "done", !.chunks = <<text>>]
          ELSE [chunker EXCEPT !.text = text, !.pc = "loop"]
    /\ UNCHANGED <<impl, fs, allowed, files, docs, procs, fsOps, calls, task, srch,
                   txn, view>>

\* lines 320-338: one iteration of the while loop
ChunkTextIter ==
    /\ chunker.pc = "loop"
    /\ Len(chunker.cuts) < MaxIter
    /\ LET text == chunker.text
           start == chunker.start
           end == ChunkEnd(text, start, chunker.chunk_size)
           chunk == Strip(Slice(text, start, end))
           next == NextStart(end, chunker.chunk_overlap)
       IN  chunker' = [chunker EXCEPT
              !.chunks = IF chunk # <<>> THEN Append(@, chunk) ELSE @,
              !.cuts = Append(@, [start |-> start, end |-> end]),
              !.start = next,
              !.pc = IF next >= Len(text) THEN "done" ELSE "loop"]
    /\ UNCHANGED <<impl, fs, allowed, files, docs, procs, fsOps, calls, task, srch,
                   txn, view>>

NextChunk ==
    \/ \E text \in UNION {[1..n -> {"a", " ", "."}] : n \in 0..MaxTextLen} :
          ChunkTextBegin(text)
    \/ ChunkTextIter

SpecChunk == InitChunk /\ [][NextChunk]_vars

----------------------------------------------------------------------------
(* Claims about the chunker *)

\* C23: every chunk the chunker emits has at most chunk_size + 1 characters,
\* the single chunk of a short text and the last chunk of a long text included.
C23_ChunkBounded ==
    \A i \in 1..Len(chunker.chunks) :
        Len(chunker.chunks[i]) <= chunker.chunk_size + 1

\* C23 witness: the chunker has returned from a text longer than chunk_size
\* and one of its chunks has chunk_size + 1 characters.
C23_Witness ==
    /\ chunker.pc = "done"
    /\ Len(chunker.text) > chunker.chunk_size
    /\ \E i \in 1..Len(chunker.chunks) :
          Len(chunker.chunks[i]) = chunker.chunk_size + 1

\* C24: every chunk the chunker emits is trimmed and non-empty; the single
\* chunk of a text of at most chunk_size characters is the trimmed text, and
\* a text of whitespace only gives no chunk.
C24_ChunksTrimmed ==
    /\ \A i \in 1..Len(chunker.chunks) :
          /\ chunker.chunks[i] # <<>>
          /\ Strip(chunker.chunks[i]) = chunker.chunks[i]
    /\ (chunker.pc = "done" /\ Len(chunker.text) <= chunker.chunk_size)
          => chunker.chunks = IF Strip(chunker.text) = <<>> THEN <<>>
                              ELSE <<Strip(chunker.text)>>

\* C25: for a text longer than chunk_size, the first cut starts at 0, each
\* next cut starts chunk_overlap characters before the end of the previous
\* one, and when the chunker has returned the cuts cover every index of the
\* text, a character outside the overlaps lies in exactly one cut, and the
\* chunks are the trimmed non-empty cuts in order.
C25_ChunkCoverage ==
    LET cuts == chunker.cuts
        text == chunker.text
        In(i) == {x \in 0..(Len(text) - 1) : cuts[i].start <= x /\ x < cuts[i].end}
        Overlaps == UNION {In(i) \cap In(i + 1) : i \in 1..(Len(cuts) - 1)}
        trimmed == [i \in 1..Len(cuts) |-> Strip(Slice(text, cuts[i].start, cuts[i].end))]
    IN  /\ cuts # <<>> => cuts[1].start = 0
        /\ \A i \in 1..(Len(cuts) - 1) :
              cuts[i + 1].start = cuts[i].end - chunker.chunk_overlap
        /\ Len(text) > chunker.chunk_size
              => chunker.chunks = SelectSeq(trimmed, LAMBDA c : c # <<>>)
        /\ (chunker.pc = "done" /\ Len(text) > chunker.chunk_size)
              => \A x \in 0..(Len(text) - 1) :
                    /\ \E i \in 1..Len(cuts) : x \in In(i)
                    /\ x \notin Overlaps
                          => Cardinality({i \in 1..Len(cuts) : x \in In(i)}) = 1

\* C25 witness: the chunker has returned after three or more cuts with an
\* overlap, one of them moved to a word boundary, and a cut that was trimmed.
C25_Witness ==
    /\ chunker.pc = "done"
    /\ chunker.chunk_overlap > 0
    /\ Len(chunker.cuts) >= 3
    /\ \E i \in 1..Len(chunker.cuts) :
          chunker.cuts[i].end # chunker.cuts[i].start + chunker.chunk_size
    /\ \E i \in 1..Len(chunker.chunks) :
          Len(chunker.chunks[i]) < chunker.chunk_size \div 2

\* C30: the start offset of the chunking loop is strictly larger after every
\* iteration, so the loop ends for every text when 0 <= chunk_overlap <
\* chunk_size.
C30_StartIncreases ==
    [][(chunker.pc = "loop" /\ chunker'.pc = "loop")
          => chunker'.start > chunker.start]_vars

----------------------------------------------------------------------------
(* search_agent/search.py: SearchEngine.get_file_preview *)

MaxWindow == 3

\* the row with the highest rowid
LastRow(S) == {d \in S : \A e \in S : e.rowid <= d.rowid}

\* ORDER BY d.rowid LIMIT 1
FirstRow(S) == {d \in S : \A e \in S : d.rowid <= e.rowid}

\* lines 309-327: the rows fetchone can return. With a pointer the SELECT has
\* no ORDER BY, so any row of the path with that pointer can come first; the
\* pointer None (here NoPointer) selects the first row of the path.
PreviewRows(rows, drows, file_path, pointer) ==
    LET joined == {d \in drows :
                      \E f \in rows : d.file_id = f.id /\ f.path = file_path}
    IN  IF pointer # NoPointer THEN {d \in joined : d.pointer = pointer}
        ELSE FirstRow(joined)

\* lines 337-353: the window and the returned dictionary for the fetched row
get_file_preview(v, row, before, after) ==
    LET content == row.content
        start == Max(0, Len(content) \div 2 - before \div 2)
        end == Min(Len(content), start + before + after)
    IN  IF Len(content) > before + after
        THEN [v EXCEPT !.outcome = "ok", !.fetched = row.pointer,
                       !.content = content, !.start = start,
                       !.preview = Slice(content, start, end), !.truncated = TRUE]
        ELSE [v EXCEPT !.outcome = "ok", !.fetched = row.pointer,
                       !.content = content, !.preview = content,
                       !.truncated = FALSE]

\* await engine.get_file_preview(file_path, pointer, before, after); line 332
\* raises ValueError when the query returns no row
Preview(file_path, pointer, before, after) ==
    /\ impl = "file"
    /\ view.outcome = "none"
    /\ LET found == PreviewRows(files, docs, file_path, pointer)
           v == [view EXCEPT
                    !.file_path = file_path, !.pointer = pointer,
                    !.before = before, !.after = after,
                    !.joined = {<<d.rowid, d.pointer>> :
                                   d \in ChunksOfPath(files, docs, file_path)}]
       IN  \/ found = {} /\ view' = [v EXCEPT !.outcome = "ValueError"]
           \/ \E row \in found : view' = get_file_preview(v, row, before, after)
    /\ UNCHANGED <<impl, fs, allowed, files, docs, procs, fsOps, calls, task, srch,
                   txn, chunker>>

\* the index of the searches, on the tree of the indexer
InitPreview ==
    /\ impl = "file"
    /\ fs = InitTree
    /\ allowed = <<>>
    /\ files = CorpusRows(FALSE)
    /\ docs = CorpusDocs(FALSE)
    /\ procs = [p \in Procs |-> IdleProc]
    /\ fsOps = 0
    /\ calls = 0
    /\ task = [p \in Procs |-> NoTask]
    /\ srch = NoSearch
    /\ txn = NoTxn(files, docs)
    /\ chunker = NoChunker
    /\ view = NoView

\* index calls, changes of the tree and then one preview
NextPreview ==
    \/ /\ view.outcome = "none"
       /\ UNCHANGED <<task, srch, txn, chunker, view>>
       /\ \/ \E f \in WrittenFiles, t \in Texts :
                \E m \in WriteMtimes(f) : FsWrite(f, [text |-> t, mtime |-> m])
          \/ \E f \in DeletedFiles : FsDelete(f)
          \/ \E root \in Roots, full \in BOOLEAN : IndexFolderBegin("p1", root, full)
          \/ IndexFolderFile("p1")
          \/ IndexFolderFinish("p1")
    \/ \E file_path \in {FA1, FB1, FX}, pointer \in {NoPointer, Pointer(0), Pointer(1)},
          before \in 0..MaxWindow, after \in 0..MaxWindow :
          Preview(file_path, pointer, before, after)

SpecPreview == InitPreview /\ [][NextPreview]_vars

\* C21: preview returns truncated = true exactly when the chunk is longer than
\* before + after; a truncated preview is the before + after characters of
\* the chunk that lie centred in it, and otherwise the preview is the chunk.
C21_PreviewWindow ==
    view.outcome = "ok" =>
        LET n == Len(view.content)
            w == view.before + view.after
        IN  /\ view.truncated <=> n > w
            /\ ~view.truncated => view.preview = view.content
            /\ view.truncated =>
                  /\ Len(view.preview) = w
                  /\ \E s \in 0..(n - w) :
                        /\ view.preview = SubSeq(view.content, s + 1, s + w)
                        /\ s - (n - w - s) \in {-1, 0, 1}
            /\ Len(view.preview) <= Max(n, w)

----------------------------------------------------------------------------
(* Claims about the rows of the index *)

C27_BadFilter ==
    (/\ srch.engine = "SearchEngine"
     /\ \E i \in 1..Len(srch.years) : ~ParseInt(srch.years[i]).ok)
        => /\ srch.outcome # "ok"
           /\ srch.items = <<>>

\* C28: a step of the walk increments indexed only if it wrote the File row
\* of its file and a chunk row attached to it; a file whose extraction is
\* empty is counted in skipped and a file whose step fails in errors, and in
\* both cases the rows are left as they were.
C28_IndexedCountsPersisted ==
    [][\A p \in Procs :
          (/\ procs[p].pc = "walk" /\ procs'[p].pc = "walk"
           /\ Len(procs'[p].todo) < Len(procs[p].todo))
             => LET st == procs'[p].step
                    old == procs[p].stats
                    new == procs'[p].stats
                IN  /\ new.indexed > old.indexed =>
                          \E f \in files' \ files :
                              /\ f.path = st.path
                              /\ \E d \in docs' \ docs : d.file_id = f.id
                    /\ (st.verdict = "reindex" /\ st.result = "empty") =>
                          /\ new.skipped = old.skipped + 1
                          /\ files' = files /\ docs' = docs
                    /\ (st.verdict = "stat_error" \/ st.result = "failed") =>
                          /\ new.errors = old.errors + 1
                          /\ files' = files /\ docs' = docs]_vars

\* C29: every chunk row carries the id of an existing File row, and a chunk
\* row that stays in the table stays attached to the same path.
C29_NoOrphanChunks ==
    /\ [](\A d \in docs : \E f \in files : f.id = d.file_id)
    /\ [][\A d \in docs \cap docs' :
             \A f \in files, g \in files' :
                 (f.id = d.file_id /\ g.id = d.file_id) => g.path = f.path]_vars


====
